---- MODULE Spec2Model ----
\* ChromaVectorDatabase (packages/core/src/vectordb/chroma-vectordb.ts):
\* the adapter's hybrid search fusion, its filter conversion, the distance to
\* score conversion, the insert / search metadata mapping, the lazy
\* initialization and the error handling of its public methods.
\*
\* Numbers: a score or distance d is held as the integer d * Unit, so that the
\* halvings of the merge rule stay exact.  Strings that the code parses (filter
\* expressions) are sequences of lexemes; strings it only passes on are atoms.
EXTENDS Integers, Sequences, FiniteSets, TLC

\* ---------------------------------------------------------------- bounds
MaxReqs == 2
MaxRows == 3
MaxLimit == 1
MaxVals == 2

\* `options?.limit || 10`
DefaultLimit == 10

\* 1.0 as an integer; every score of the model is a multiple of Unit / 2, and
\* an id occurs at most MaxRows times in a call, so (a + b) / 2 is exact.
Unit == 2 ^ MaxRows

Ids == {"x", "y"}

\* ---------------------------------------------------------------- helpers
Max2(a, b) == IF a >= b THEN a ELSE b
Min2(a, b) == IF a <= b THEN a ELSE b

SeqsUpTo(S, n) == UNION {[1..k -> S] : k \in 0..n}

\* ------------------------------------------------------- filter expressions
\* A filter expression is a sequence of lexemes: the words below, blanks,
\* brackets, commas and quotes.
SP == " "
DQ == "\""
SQ == "'"
Quotes == {DQ, SQ}

\* filter.includes('fileExtension in')
IncludesFileExtensionIn(f) ==
    \E i \in 1..Len(f) :
        /\ i + 2 <= Len(f)
        /\ f[i] = "fileExtension" /\ f[i + 1] = SP /\ f[i + 2] = "in"

\* The positions i at which /\[([^\]]+)\]/ matches: a "[" followed by one or
\* more lexemes other than "]" and then a "]".
BracketMatchStarts(f) ==
    {i \in 1..Len(f) :
        /\ f[i] = "["
        /\ \E j \in (i + 2)..Len(f) :
              /\ f[j] = "]"
              /\ \A k \in (i + 1)..(j - 1) : f[k] # "]"}

Least(S) == CHOOSE m \in S : \A n \in S : m <= n

\* filter.match(/\[([^\]]+)\]/)?.[1] : the captured group of the leftmost match;
\* HasBracketGroup tells whether there is a match at all.
HasBracketGroup(f) == BracketMatchStarts(f) # {}
BracketGroup(f) ==
    LET i == Least(BracketMatchStarts(f))
        j == Least({n \in (i + 2)..Len(f) : f[n] = "]"})
    IN  SubSeq(f, i + 1, j - 1)

RECURSIVE SplitComma(_)
\* s.split(',')
SplitComma(s) ==
    IF \A i \in 1..Len(s) : s[i] # ","
      THEN <<s>>
      ELSE LET c == Least({i \in 1..Len(s) : s[i] = ","})
           IN  <<SubSeq(s, 1, c - 1)>> \o SplitComma(SubSeq(s, c + 1, Len(s)))

RECURSIVE TrimLeft(_)
TrimLeft(s) == IF s # <<>> /\ Head(s) = SP THEN TrimLeft(Tail(s)) ELSE s
RECURSIVE TrimRight(_)
TrimRight(s) ==
    IF s # <<>> /\ s[Len(s)] = SP THEN TrimRight(SubSeq(s, 1, Len(s) - 1)) ELSE s
\* s.trim()
Trim(s) == TrimLeft(TrimRight(s))

\* s.replace(/['"]/g, '')
StripQuotes(s) == SelectSeq(s, LAMBDA c : c \notin Quotes)

\* filter.match(...)?.[1]?.split(',').map(ext => ext.trim().replace(/['"]/g, ''))
ParseExtensions(f) ==
    LET parts == SplitComma(BracketGroup(f))
    IN  [i \in 1..Len(parts) |-> StripQuotes(Trim(parts[i]))]

\* A backend predicate { field: { "$in": values } }; NoWhere is `undefined`.
NoWhere == [none |-> TRUE]
WhereIn(field, values) == [field |-> field, in |-> values]

\* hybridSearch's text branch: { fileExtension: { "$in": [".ts", ".js", ".py"] } }
HardcodedWhere == WhereIn("fileExtension", << <<".ts">>, <<".js">>, <<".py">> >>)

\* (a filter that cannot be read falls back to the hardcoded predicate)
QueryWhereFallsBack(f) ==
    IF f # <<>> /\ Trim(f) # <<>> /\ IncludesFileExtensionIn(f) /\ HasBracketGroup(f)
      THEN WhereIn("fileExtension", ParseExtensions(f))
      ELSE IF f # <<>> THEN HardcodedWhere ELSE NoWhere

\* query(): the where clause built from `filter`
QueryWhere(f) ==
    IF f # <<>> /\ Trim(f) # <<>> /\ IncludesFileExtensionIn(f) /\ HasBracketGroup(f)
      THEN WhereIn("fileExtension", ParseExtensions(f))
      ELSE NoWhere

\* ---------------------------------------------------------------- records
\* The records of ./types and of the backend, with their fields in the order
\* in which the definitions below list them.
VectorDocument ==
    [id : STRING, vector : Seq(Int), content : STRING, relativePath : STRING,
     startLine : Int, endLine : Int, fileExtension : STRING,
     metadata : [STRING -> STRING \cup Int]]
VectorSearchResult == [document : VectorDocument, score : Int]
HybridSearchOptions == [limit : Nat, filterExpr : Seq(STRING)]
HybridSearchRequest == [anns_field : STRING, data : {"array", "string"}]

\* ---------------------------------------------------------------- state
VARIABLES
    client,     \* this.client: "null" or "client"
    initDone,   \* this.initializationPromise has resolved
    initFailed, \* this.initializationPromise was rejected
    collections, \* the names of the collections the backend holds
    op,         \* the public method running, or "none"
    pc,         \* where it stands: "idle", "ensureInitialized", "getCollection", "call", "done"
    options,    \* the arguments of the call other than the search requests
    pending,    \* hybridSearch: the requests from the current one on
    reqNo,      \* hybridSearch: index of the current request in searchRequests
    inflight,   \* the backend call awaited, or NoCall
    wheres,     \* the where clauses of the query / get calls this call has issued
    reply,      \* how the backend answered last: "none", "ok", "error"
    results,    \* hybridSearch: the Map id -> { document, score }, in insertion order
    history,    \* hybridSearch: every searchResults entry merged so far, in order
    outcome,    \* what the method gave its caller
    store,      \* the backend collection: id -> [metadata, document]
    inserted    \* the VectorDocuments handed to insert, by id

vars == <<client, initDone, initFailed, collections, op, pc, options, pending,
          reqNo, inflight, wheres, reply, results, history, outcome, store, inserted>>

\* what construction and the collection management methods set
setup == <<client, initDone, initFailed, collections>>

NoCall == [method |-> "none"]
NoOptions == [none |-> TRUE]
NoOutcome == [status |-> "none"]
Threw == [status |-> "threw"]
\* throw new Error('Chroma client not initialized'), and the error that
\* initialize() was rejected with
ThrewNotInitialized == [status |-> "threw", error |-> "Chroma client not initialized"]
ThrewInitError == [status |-> "threw", error |-> "initialization failed"]
Returned(v) == [status |-> "returned", value |-> v]

\* ------------------------------------------------------------ documents
ReservedKeys == {"relativePath", "startLine", "endLine", "fileExtension"}

\* metadata[k] || default, for the keys held as strings and as numbers
StrField(md, k) == IF k \in DOMAIN md /\ md[k] # "" THEN md[k] ELSE ""
NumField(md, k) == IF k \in DOMAIN md /\ md[k] # 0 THEN md[k] ELSE 0

\* Object.fromEntries(Object.entries(metadata).filter(([key]) => ![...].includes(key)))
Residual(md) == [k \in DOMAIN md \ ReservedKeys |-> md[k]]

\* insert(): { relativePath, startLine, endLine, fileExtension, ...doc.metadata }
InsertMetadata(doc) ==
    [k \in ReservedKeys \cup DOMAIN doc.metadata |->
        IF k \in DOMAIN doc.metadata THEN doc.metadata[k] ELSE doc[k]]

\* The document built from a backend row (search, and the same lines in the
\* text branch of hybridSearch).
DocumentOf(row, vector) ==
    [id |-> row.id,
     vector |-> vector,
     content |-> row.document,
     relativePath |-> StrField(row.metadata, "relativePath"),
     startLine |-> NumField(row.metadata, "startLine"),
     endLine |-> NumField(row.metadata, "endLine"),
     fileExtension |-> StrField(row.metadata, "fileExtension"),
     metadata |-> Residual(row.metadata)]

\* results.distances?.[0]?.[i] || 0
DistanceOf(row) == IF "distance" \in DOMAIN row THEN row.distance ELSE 0

\* (1 - distance, without the clamp at 0)
SearchScoreUnclamped(row) == Unit - DistanceOf(row)

\* search(): Math.max(0, 1 - distance)
SearchScore(row) == Max2(0, Unit - DistanceOf(row))

\* (the text branch without the clamp at 0)
TextScoreUnclamped(row) == Unit - DistanceOf(row)

\* hybridSearch(), text branch: Math.max(0, 1 - distance)
TextScore(row) == Max2(0, Unit - DistanceOf(row))

\* search(): the searchResults built from the rows of collection.query
SearchResults(rows, queryVector) ==
    [i \in 1..Len(rows) |->
        [document |-> DocumentOf(rows[i], queryVector), score |-> SearchScore(rows[i])]]

\* hybridSearch(), text branch: the searchResults built from textResults
TextResults(rows) ==
    [i \in 1..Len(rows) |->
        [document |-> DocumentOf(rows[i], <<>>), score |-> TextScore(rows[i])]]

\* search(): `if (options?.filter) queryParams.where = options.filter`
SearchWhere(opts) ==
    IF "filter" \in DOMAIN opts /\ opts.filter # NoWhere THEN opts.filter ELSE NoWhere

\* hybridSearch(), text branch: `if (options?.filterExpr) queryParams.where = {...}`
TextWhere(opts) == IF opts.filterExpr # <<>> THEN HardcodedWhere ELSE NoWhere

\* hybridSearch(): the options handed to this.search for a dense request
\* (topK: request.limit only sizes the reply, which MaxRows bounds here)
DenseSearchOptions(opts) == [filterExpr |-> opts.filterExpr]

\* ------------------------------------------------------------ requests
\* A HybridSearchRequest: its anns_field and whether its data is an array or a string.
DenseRequest == [anns_field |-> "vector", data |-> "array"]
TextRequest == [anns_field |-> "sparse_vector", data |-> "string"]
UnknownRequest == [anns_field |-> "other", data |-> "array"]
Requests == {DenseRequest, TextRequest, UnknownRequest}

\* request.anns_field === 'vector' && Array.isArray(request.data)
IsDense(r) == r.anns_field = "vector" /\ r.data = "array"
\* else: request.anns_field === 'sparse_vector' || typeof request.data === 'string'
IsText(r) == ~IsDense(r) /\ (r.anns_field = "sparse_vector" \/ r.data = "string")

\* the query vector of a dense request, and the empty vector of a text result
QueryVector == <<1>>

\* ------------------------------------------------------------ fusion
IdsOf(acc) == {acc[i].document.id : i \in 1..Len(acc)}
IndexOf(acc, id) == CHOOSE i \in 1..Len(acc) : acc[i].document.id = id

\* (existing.score + result.score / 2: the division binds to the new score only)
CombineScoreUnbracketed(existing, new) == existing + new \div 2

\* (the scores are added and not halved)
CombineScoreSum(existing, new) == existing + new

\* existing.score = (existing.score + result.score) / 2
CombineScore(existing, new) == (existing + new) \div 2

\* (every result is added as a new entry, whether its id is known or not)
MergeOneAlwaysAdds(acc, result) ==
    Append(acc, [document |-> result.document, score |-> result.score])

\* (the entry of a known id takes the document of the later result)
MergeOneTakesLaterDocument(acc, result) ==
    IF result.document.id \in IdsOf(acc)
      THEN LET i == IndexOf(acc, result.document.id)
           IN  [acc EXCEPT ![i] = [document |-> result.document,
                                   score |-> CombineScore(acc[i].score, result.score)]]
      ELSE Append(acc, [document |-> result.document, score |-> result.score])

\* (the score of a known id is replaced by the later score)
MergeOneOverwrites(acc, result) ==
    IF result.document.id \in IdsOf(acc)
      THEN LET i == IndexOf(acc, result.document.id)
           IN  [acc EXCEPT ![i].score = result.score]
      ELSE Append(acc, [document |-> result.document, score |-> result.score])

\* One pass of `for (const result of searchResults)`: results.get / results.set
MergeOne(acc, result) ==
    IF result.document.id \in IdsOf(acc)
      THEN LET i == IndexOf(acc, result.document.id)
           IN  [acc EXCEPT ![i].score = CombineScore(acc[i].score, result.score)]
      ELSE Append(acc, [document |-> result.document, score |-> result.score])

\* (the results of a request are not in the map yet when the loop goes on)
MergeAllNotYet(acc, searchResults) == acc

RECURSIVE MergeAll(_, _)
\* for (const result of searchResults) { ... }
MergeAll(acc, searchResults) ==
    IF searchResults = <<>> THEN acc
    ELSE MergeAll(MergeOne(acc, Head(searchResults)), Tail(searchResults))

\* (a comparator that also moves a behind b when their scores are equal)
ComesAfterOnTies(a, b) == b.score - a.score >= 0

\* the comparator (a, b) => b.score - a.score puts a after b when it is positive
ComesAfter(a, b) == b.score - a.score > 0

RECURSIVE InsertSorted(_, _)
\* e placed after every element it does not have to precede
InsertSorted(sorted, e) ==
    IF sorted = <<>> THEN <<e>>
    ELSE IF ComesAfter(Head(sorted), e) THEN <<e>> \o sorted
    ELSE <<Head(sorted)>> \o InsertSorted(Tail(sorted), e)

RECURSIVE SortByScore(_)
\* Array.prototype.sort with that comparator (a stable sort)
SortByScore(s) ==
    IF s = <<>> THEN <<>>
    ELSE InsertSorted(SortByScore(SubSeq(s, 1, Len(s) - 1)), s[Len(s)])

\* .slice(0, limit)
Slice(s, limit) == SubSeq(s, 1, Min2(limit, Len(s)))

\* (the limit of the options is not read)
LimitOfIgnored(opts) == DefaultLimit

\* const limit = options?.limit || 10
LimitOf(opts) == IF opts.limit # 0 THEN opts.limit ELSE DefaultLimit

\* Array.from(results.values()).sort(...).slice(0, limit)
HybridResults(acc, limit) == Slice(SortByScore(acc), limit)

\* ------------------------------------------------------------ inputs
\* The VectorDocuments a caller may insert for an id.
MetadataChoices ==
    {<<>>, [author |-> "dev"], [relativePath |-> "other.py", startLine |-> 7]}
DocChoices(id) ==
    {[id |-> id, vector |-> <<1>>, content |-> "text", relativePath |-> "src/a.ts",
      startLine |-> 1, endLine |-> 9, fileExtension |-> ".ts", metadata |-> md] :
        md \in MetadataChoices}

\* collection.add: what the backend keeps of a document
Stored(doc) == [metadata |-> InsertMetadata(doc), document |-> doc.content]

\* The collection the search specification starts from: one document per id,
\* inserted earlier through insert().
SeedDoc(id) ==
    [id |-> id, vector |-> <<1>>, content |-> "text", relativePath |-> "src/a.ts",
     startLine |-> 1, endLine |-> 9, fileExtension |-> ".ts",
     metadata |-> IF id = "x" THEN <<>> ELSE [author |-> "dev"]]
SeedStore == [id \in Ids |-> Stored(SeedDoc(id))]

\* Raw distances the backend may report to hybridSearch and to search.
HybridDistances == {0, 2 * Unit}
SearchDistances == {0 - Unit, 0, Unit \div 2, Unit, 2 * Unit}

\* One row of a collection.query reply
Row(id, d) ==
    [id |-> id, metadata |-> store[id].metadata, document |-> store[id].document,
     distance |-> d]
\* a row whose distance the reply leaves out
RowNoDistance(id) ==
    [id |-> id, metadata |-> store[id].metadata, document |-> store[id].document]

HybridRows == {Row(id, d) : id \in DOMAIN store, d \in HybridDistances}
SearchRows ==
    {Row(id, d) : id \in DOMAIN store, d \in SearchDistances}
        \cup {RowNoDistance(id) : id \in DOMAIN store}

\* Filter expressions: the documented form for a field and a list of values ...
RECURSIVE QuotedList(_)
QuotedList(vals) ==
    IF Len(vals) = 1 THEN <<DQ, Head(vals), DQ>>
    ELSE <<DQ, Head(vals), DQ, ",", SP>> \o QuotedList(Tail(vals))
InExpr(field, vals) == <<field, SP, "in", SP, "[">> \o QuotedList(vals) \o <<"]">>

Fields == {"fileExtension", "relativePath"}
Values == {".ts", ".js"}
ValueLists == SeqsUpTo(Values, MaxVals) \ {<<>>}
GrammarFilters == {InExpr(fd, vs) : fd \in Fields, vs \in ValueLists}

\* ... and expressions outside it
OtherFilters ==
    {<<SP>>,
     <<"junk">>,
     <<"fileExtension", SP, "in">>,
     <<"fileExtension", SP, "in", SP, "[", "]">>,
     <<"fileExtension", SP, "=", "=", SP, DQ, ".ts", DQ>>,
     <<"fileExtension", SP, "in", SP, "[", ".ts", "]", SP, "junk">>}
NoFilter == <<>>
QueryFilters == {NoFilter} \cup GrammarFilters \cup OtherFilters
HybridFilters ==
    {NoFilter, InExpr("fileExtension", <<".ts", ".js">>), <<"junk">>}

\* The collection that search, hybridSearch, query, insert and delete are
\* called on, and the names createCollection, dropCollection and hasCollection
\* are called with.
DataCollection == "code"
CollectionNames == {"code", "docs"}

\* ------------------------------------------------------------ initial states
InitCommon ==
    /\ client = "null"
    /\ initDone = FALSE
    /\ initFailed = FALSE
    /\ collections = {DataCollection}
    /\ op = "none"
    /\ pc = "idle"
    /\ options = NoOptions
    /\ pending = <<>>
    /\ reqNo = 0
    /\ inflight = NoCall
    /\ wheres = {}
    /\ reply = "none"
    /\ results = <<>>
    /\ history = <<>>
    /\ outcome = NoOutcome

Init == InitCommon /\ store = SeedStore /\ inserted = [id \in Ids |-> SeedDoc(id)]
InitStore == InitCommon /\ store = <<>> /\ inserted = <<>>

\* ------------------------------------------------------------ actions
\* constructor -> initialize() -> initializeClient()
InitializeClient ==
    /\ ~initDone /\ ~initFailed
    /\ client' = "client"
    /\ initDone' = TRUE
    /\ UNCHANGED <<initFailed, collections, op, pc, options, pending, reqNo,
                   inflight, wheres, reply, results, history, outcome, store, inserted>>

\* A public method is called: it first awaits ensureInitialized().
Call(name, opts, reqs) ==
    /\ op = "none"
    /\ op' = name
    /\ pc' = "ensureInitialized"
    /\ options' = opts
    /\ pending' = reqs
    /\ UNCHANGED <<setup, reqNo, inflight, wheres, reply, results,
                   history, outcome, store, inserted>>

HybridSearchCall ==
    \E reqs \in SeqsUpTo(Requests, MaxReqs), limit \in 0..MaxLimit, f \in HybridFilters :
        Call("hybridSearch", [limit |-> limit, filterExpr |-> f], reqs)

SearchCall ==
    \E opts \in {NoOptions, [filter |-> WhereIn("fileExtension", <<".ts">>)]} :
        Call("search", opts, <<>>)

QueryCall == \E f \in QueryFilters : Call("query", [filter |-> f], <<>>)

InsertCall ==
    \E ids \in SeqsUpTo(Ids \ DOMAIN store, 2) \ {<<>>} :
        /\ \A i, j \in 1..Len(ids) : i # j => ids[i] # ids[j]
        /\ \E docs \in [1..Len(ids) -> UNION {DocChoices(id) : id \in Ids}] :
              /\ \A i \in 1..Len(ids) : docs[i].id = ids[i]
              /\ Call("insert", [documents |-> docs], <<>>)

RECURSIVE SkipUnhandled(_)
\* the requests that match neither branch leave searchResults empty and are
\* passed without an await
SkipUnhandled(reqs) ==
    IF reqs # <<>> /\ ~IsDense(Head(reqs)) /\ ~IsText(Head(reqs))
      THEN SkipUnhandled(Tail(reqs))
      ELSE reqs

\* hybridSearch's loop from the requests `pend` on, up to its next await: the
\* getCollection of the next request that has a branch, or the sort, slice and
\* return after the last one.
HybridContinue(pend, no, acc) ==
    LET rest == SkipUnhandled(pend)
    IN  /\ pending' = rest
        /\ reqNo' = no + (Len(pend) - Len(rest)) + (IF rest = <<>> THEN 0 ELSE 1)
        /\ IF rest = <<>>
             THEN /\ pc' = "done"
                  /\ inflight' = NoCall
                  /\ outcome' = Returned(HybridResults(acc, LimitOf(options)))
             ELSE /\ pc' = "getCollection"
                  /\ inflight' = [method |-> "getCollection"]
                  /\ outcome' = outcome

\* ensureInitialized() has returned in hybridSearch
HybridStart ==
    /\ op = "hybridSearch" /\ pc = "ensureInitialized" /\ initDone
    /\ IF client = "null"
         THEN /\ pc' = "done" /\ outcome' = ThrewNotInitialized
              /\ UNCHANGED <<pending, reqNo, inflight, results>>
         ELSE /\ results' = <<>>
              /\ HybridContinue(pending, 0, <<>>)
    /\ UNCHANGED <<setup, op, options, wheres, reply, history, store, inserted>>

\* ensureInitialized() has returned in search, query, insert or delete: getCollection
OtherStart ==
    /\ op \in {"search", "query", "insert", "delete"} /\ pc = "ensureInitialized" /\ initDone
    /\ IF client = "null"
         THEN pc' = "done" /\ outcome' = ThrewNotInitialized /\ inflight' = inflight
         ELSE pc' = "getCollection" /\ inflight' = [method |-> "getCollection"]
                /\ outcome' = outcome
    /\ UNCHANGED <<setup, op, options, pending, reqNo, wheres, reply,
                   results, history, store, inserted>>

\* The call a method issues on the collection it has got.
CollectionCall ==
    CASE op = "hybridSearch" /\ IsDense(Head(pending)) ->
            [method |-> "query", by |-> "queryEmbeddings",
             where |-> SearchWhere(DenseSearchOptions(options))]
      [] op = "hybridSearch" /\ ~IsDense(Head(pending)) ->
            [method |-> "query", by |-> "queryTexts", where |-> TextWhere(options)]
      [] op = "search" ->
            [method |-> "query", by |-> "queryEmbeddings", where |-> SearchWhere(options)]
      [] op = "query" ->
            [method |-> "get", where |-> QueryWhere(options.filter)]
      [] op = "insert" ->
            [method |-> "add",
             ids |-> [i \in 1..Len(options.documents) |-> options.documents[i].id],
             documents |-> [i \in 1..Len(options.documents) |->
                              options.documents[i].content],
             metadatas |-> [i \in 1..Len(options.documents) |->
                              InsertMetadata(options.documents[i])]]
      [] op = "delete" ->
            [method |-> "delete", ids |-> options.ids]

\* client.getCollection answers: the backend holds the collection
GetCollectionReturn ==
    /\ pc = "getCollection"
    /\ DataCollection \in collections
    /\ pc' = "call"
    /\ inflight' = CollectionCall
    /\ wheres' = IF op \in {"insert", "delete"} THEN wheres
                 ELSE wheres \cup {CollectionCall.where}
    /\ reply' = "ok"
    /\ UNCHANGED <<setup, op, options, pending, reqNo, results,
                   history, outcome, store, inserted>>

\* what the model keeps of a reply: each row with the result built from it
Merged(rows, searchResults, no) ==
    [i \in 1..Len(rows) |-> [row |-> rows[i], result |-> searchResults[i], req |-> no]]

\* hybridSearch from the reply `rows` of collection.query on: the rows are
\* converted and merged into the map, and the loop goes on to its next await or
\* to the return.
HybridReply(rows) ==
    LET searchResults == IF IsDense(Head(pending))
                           THEN SearchResults(rows, QueryVector)
                           ELSE TextResults(rows)
        acc == MergeAll(results, searchResults)
    IN  /\ results' = acc
        /\ history' = history \o Merged(rows, searchResults, reqNo)
        /\ HybridContinue(Tail(pending), reqNo, acc)

\* collection.query answers in hybridSearch
HybridQueryReturn ==
    /\ op = "hybridSearch" /\ pc = "call"
    /\ \E rows \in SeqsUpTo(HybridRows, MaxRows - Len(history)) : HybridReply(rows)
    /\ reply' = "ok"
    /\ UNCHANGED <<setup, op, options, wheres, store, inserted>>

\* the rows and the results of the reply to request number `no`
RowsOf(no) ==
    LET hits == SelectSeq(history, LAMBDA e : e.req = no)
    IN  [i \in 1..Len(hits) |-> hits[i].row]
ResultsOf(no) ==
    LET hits == SelectSeq(history, LAMBDA e : e.req = no)
    IN  [i \in 1..Len(hits) |-> hits[i].result]

\* hybridSearch called with one request, or with the same request twice
RepeatRequests == {<<r>> : r \in Requests} \cup {<<r, r>> : r \in Requests}
HybridRepeatCall ==
    \E reqs \in RepeatRequests, limit \in 0..MaxLimit, f \in HybridFilters :
        Call("hybridSearch", [limit |-> limit, filterExpr |-> f], reqs)

\* The rows of one reply when a call may repeat its request: an id is then
\* merged at most MaxRows + 1 times, which keeps the halvings exact.
MaxRepeatRows == (MaxRows + 1) \div 2

\* collection.query answers in hybridSearch, from a backend that answers the
\* repeated request as it answered it the first time
HybridQueryReturnSame ==
    /\ op = "hybridSearch" /\ pc = "call"
    /\ IF reqNo = 1
         THEN \E rows \in SeqsUpTo(HybridRows, MaxRepeatRows) : HybridReply(rows)
         ELSE HybridReply(RowsOf(1))
    /\ reply' = "ok"
    /\ UNCHANGED <<setup, op, options, wheres, store, inserted>>

\* collection.query answers in search
SearchQueryReturn ==
    /\ op = "search" /\ pc = "call"
    /\ \E rows \in SeqsUpTo(SearchRows, MaxRows) :
          /\ history' = Merged(rows, SearchResults(rows, QueryVector), 0)
          /\ outcome' = Returned(SearchResults(rows, QueryVector))
    /\ pc' = "done"
    /\ inflight' = NoCall
    /\ reply' = "ok"
    /\ UNCHANGED <<setup, op, options, pending, reqNo, wheres, results,
                   store, inserted>>

\* query(): { id, content, ...metadata } for a row of collection.get
QueryResult(id) ==
    LET md == store[id].metadata
    IN  [k \in {"id", "content"} \cup DOMAIN md |->
            IF k \in DOMAIN md THEN md[k]
            ELSE IF k = "id" THEN id ELSE store[id].document]

\* collection.get answers in query (outputFields empty: every field is kept)
QueryGetReturn ==
    /\ op = "query" /\ pc = "call"
    /\ \E ids \in SeqsUpTo(DOMAIN store, MaxRows) :
          outcome' = Returned([i \in 1..Len(ids) |-> QueryResult(ids[i])])
    /\ pc' = "done"
    /\ inflight' = NoCall
    /\ reply' = "ok"
    /\ UNCHANGED <<setup, op, options, pending, reqNo, wheres, results,
                   history, store, inserted>>

\* collection.add answers in insert
InsertAddReturn ==
    /\ op = "insert" /\ pc = "call"
    /\ LET new == {inflight.ids[i] : i \in 1..Len(inflight.ids)}
           at(id) == CHOOSE i \in 1..Len(inflight.ids) : inflight.ids[i] = id
       IN  /\ store' = [id \in DOMAIN store \cup new |->
                          IF id \in new
                            THEN [metadata |-> inflight.metadatas[at(id)],
                                  document |-> inflight.documents[at(id)]]
                            ELSE store[id]]
           /\ inserted' = [id \in DOMAIN inserted \cup new |->
                             IF id \in new THEN options.documents[at(id)]
                             ELSE inserted[id]]
    /\ outcome' = Returned(<<>>)
    /\ pc' = "done"
    /\ inflight' = NoCall
    /\ reply' = "ok"
    /\ UNCHANGED <<setup, op, options, pending, reqNo, wheres, results, history>>

\* catch (error) { console.error(...); throw error; } : nothing is
\* returned; the model keeps the map and the request number the call stopped at
Rethrow ==
    /\ pc' = "done"
    /\ outcome' = Threw
    /\ inflight' = NoCall
    /\ pending' = <<>>
    /\ history' = <<>>
    /\ UNCHANGED <<reqNo, results>>

\* (the failed request counts as one without results and the loop goes on)
HybridCatchDegrades ==
    /\ results' = results
    /\ history' = history
    /\ HybridContinue(Tail(pending), reqNo, results)

\* hybridSearch's catch block
HybridCatch == Rethrow

\* The backend call awaited by hybridSearch (getCollection or collection.query,
\* directly or inside search) fails.
HybridBackendError ==
    /\ op = "hybridSearch" /\ pc \in {"getCollection", "call"}
    /\ reply' = "error"
    /\ HybridCatch
    /\ UNCHANGED <<setup, op, options, wheres, store, inserted>>

\* The backend call awaited by search, query, insert or delete fails.
OtherBackendError ==
    /\ op \in {"search", "query", "insert", "delete"} /\ pc \in {"getCollection", "call"}
    /\ reply' = "error"
    /\ Rethrow
    /\ UNCHANGED <<setup, op, options, wheres, store, inserted>>

\* The caller has its result or its error; the adapter is ready for another call.
Return ==
    /\ pc = "done"
    /\ op' = "none"
    /\ pc' = "idle"
    /\ options' = NoOptions
    /\ pending' = <<>>
    /\ reqNo' = 0
    /\ inflight' = NoCall
    /\ wheres' = {}
    /\ reply' = "none"
    /\ results' = <<>>
    /\ history' = <<>>
    /\ outcome' = NoOutcome
    /\ UNCHANGED <<setup, store, inserted>>

\* ------------------------------------------------ initialization failures
\* initializeClient() throws: at `new ChromaClient(clientConfig)`, which leaves
\* this.client null, or later at the set-up of the embedding function, with
\* the client assigned.  initialize() and the initialization promise reject.
InitializeClientThrows ==
    /\ ~initDone /\ ~initFailed
    /\ initFailed' = TRUE
    /\ \E c \in {"null", "client"} : client' = c
    /\ UNCHANGED <<initDone, collections, op, pc, options, pending, reqNo,
                   inflight, wheres, reply, results, history, outcome, store, inserted>>

\* `await this.initializationPromise` throws what the promise was rejected
\* with, in any method
EnsureInitializedRejects ==
    /\ op # "none" /\ pc = "ensureInitialized" /\ initFailed
    /\ pc' = "done"
    /\ outcome' = ThrewInitError
    /\ UNCHANGED <<setup, op, options, pending, reqNo, inflight, wheres, reply,
                   results, history, store, inserted>>

\* ------------------------------------------- collection management, delete
HybridSearchDefaultCall ==
    Call("hybridSearch", [limit |-> 0, filterExpr |-> NoFilter],
         <<DenseRequest, TextRequest>>)
QueryAllCall == Call("query", [filter |-> NoFilter], <<>>)
InsertSeedCall ==
    \E id \in Ids \ DOMAIN store : Call("insert", [documents |-> <<SeedDoc(id)>>], <<>>)
DeleteCall == \E id \in Ids : Call("delete", [ids |-> <<id>>], <<>>)
CreateCollectionCall ==
    \E name \in CollectionNames : Call("createCollection", [name |-> name], <<>>)
DropCollectionCall ==
    \E name \in CollectionNames : Call("dropCollection", [name |-> name], <<>>)
HasCollectionCall ==
    \E name \in CollectionNames : Call("hasCollection", [name |-> name], <<>>)
ListCollectionsCall == Call("listCollections", NoOptions, <<>>)

\* the methods that call the client and no collection
ClientOps == {"createCollection", "dropCollection", "hasCollection", "listCollections"}

\* The call such a method issues on the client.
ClientCall ==
    CASE op = "createCollection" -> [method |-> "createCollection", name |-> options.name]
      [] op = "dropCollection" -> [method |-> "deleteCollection", name |-> options.name]
      [] op \in {"hasCollection", "listCollections"} -> [method |-> "listCollections"]

\* (the method does not await the initialization before its client check)
ClientStartWithoutAwait ==
    /\ op \in ClientOps /\ pc = "ensureInitialized"
    /\ IF client = "null"
         THEN pc' = "done" /\ outcome' = ThrewNotInitialized /\ inflight' = inflight
         ELSE pc' = "call" /\ inflight' = ClientCall /\ outcome' = outcome
    /\ UNCHANGED <<setup, op, options, pending, reqNo, wheres, reply, results,
                   history, store, inserted>>

\* ensureInitialized() has returned in createCollection, dropCollection,
\* hasCollection or listCollections
ClientStart ==
    /\ op \in ClientOps /\ pc = "ensureInitialized" /\ initDone
    /\ IF client = "null"
         THEN pc' = "done" /\ outcome' = ThrewNotInitialized /\ inflight' = inflight
         ELSE pc' = "call" /\ inflight' = ClientCall /\ outcome' = outcome
    /\ UNCHANGED <<setup, op, options, pending, reqNo, wheres, reply, results,
                   history, store, inserted>>

\* a call on the client or on the collection has answered and the method returns v
Answered(v) ==
    /\ outcome' = Returned(v)
    /\ pc' = "done"
    /\ inflight' = NoCall
    /\ reply' = "ok"
    /\ UNCHANGED <<client, initDone, initFailed, op, options, pending, reqNo, wheres,
                   results, history>>

\* client.createCollection answers: the backend did not hold the name
CreateCollectionReturn ==
    /\ op = "createCollection" /\ pc = "call"
    /\ options.name \notin collections
    /\ collections' = collections \cup {options.name}
    /\ Answered(<<>>)
    /\ UNCHANGED <<store, inserted>>

\* client.deleteCollection answers: the collection is gone with its documents
DropCollectionReturn ==
    /\ op = "dropCollection" /\ pc = "call"
    /\ options.name \in collections
    /\ collections' = collections \ {options.name}
    /\ IF options.name = DataCollection
         THEN store' = <<>> /\ inserted' = <<>>
         ELSE UNCHANGED <<store, inserted>>
    /\ Answered(<<>>)

\* client.listCollections answers in hasCollection: collections.some(...)
HasCollectionReturn ==
    /\ op = "hasCollection" /\ pc = "call"
    /\ Answered(options.name \in collections)
    /\ UNCHANGED <<collections, store, inserted>>

\* client.listCollections answers in listCollections: the names
ListCollectionsReturn ==
    /\ op = "listCollections" /\ pc = "call"
    /\ Answered(collections)
    /\ UNCHANGED <<collections, store, inserted>>

\* collection.delete answers in delete
DeleteReturn ==
    /\ op = "delete" /\ pc = "call"
    /\ LET gone == {options.ids[i] : i \in 1..Len(options.ids)}
       IN  /\ store' = [id \in DOMAIN store \ gone |-> store[id]]
           /\ inserted' = [id \in DOMAIN inserted \ gone |-> inserted[id]]
    /\ Answered(<<>>)
    /\ UNCHANGED collections

\* The call on the client fails in createCollection, dropCollection or
\* listCollections: catch, log, throw.
ClientBackendError ==
    /\ op \in {"createCollection", "dropCollection", "listCollections"} /\ pc = "call"
    /\ reply' = "error"
    /\ Rethrow
    /\ UNCHANGED <<setup, op, options, wheres, store, inserted>>

\* (hasCollection's catch block throws the error on, as the other methods do)
HasCollectionCatchRethrows == Rethrow

\* hasCollection's catch block: console.error(...); return false
HasCollectionCatch ==
    /\ pc' = "done"
    /\ outcome' = Returned(FALSE)
    /\ inflight' = NoCall
    /\ pending' = <<>>
    /\ history' = <<>>
    /\ UNCHANGED <<reqNo, results>>

\* client.listCollections fails in hasCollection
HasCollectionBackendError ==
    /\ op = "hasCollection" /\ pc = "call"
    /\ reply' = "error"
    /\ HasCollectionCatch
    /\ UNCHANGED <<setup, op, options, wheres, store, inserted>>

\* ------------------------------------------------------------ specifications
\* search, hybridSearch and query over a collection that holds documents
Next ==
    \/ InitializeClient
    \/ HybridSearchCall
    \/ SearchCall
    \/ QueryCall
    \/ HybridStart
    \/ OtherStart
    \/ GetCollectionReturn
    \/ HybridQueryReturn
    \/ SearchQueryReturn
    \/ QueryGetReturn
    \/ HybridBackendError
    \/ OtherBackendError
    \/ Return

Spec == Init /\ [][Next]_vars

\* insert and search over a collection that starts empty
NextStore ==
    \/ InitializeClient
    \/ InsertCall
    \/ SearchCall
    \/ OtherStart
    \/ GetCollectionReturn
    \/ SearchQueryReturn
    \/ InsertAddReturn
    \/ OtherBackendError
    \/ Return

SpecStore == InitStore /\ [][NextStore]_vars

\* hybridSearch with a request given once or twice, over a backend that answers
\* identical requests identically
NextRepeat ==
    \/ InitializeClient
    \/ HybridRepeatCall
    \/ HybridStart
    \/ GetCollectionReturn
    \/ HybridQueryReturnSame
    \/ HybridBackendError
    \/ Return

SpecRepeat == Init /\ [][NextRepeat]_vars

\* every public method, called before or after the initialization has
\* succeeded or failed
NextLifecycle ==
    \/ InitializeClient
    \/ InitializeClientThrows
    \/ EnsureInitializedRejects
    \/ HybridSearchDefaultCall
    \/ SearchCall
    \/ QueryAllCall
    \/ InsertSeedCall
    \/ DeleteCall
    \/ CreateCollectionCall
    \/ DropCollectionCall
    \/ HasCollectionCall
    \/ ListCollectionsCall
    \/ HybridStart
    \/ OtherStart
    \/ ClientStart
    \/ GetCollectionReturn
    \/ HybridQueryReturn
    \/ SearchQueryReturn
    \/ QueryGetReturn
    \/ InsertAddReturn
    \/ DeleteReturn
    \/ CreateCollectionReturn
    \/ DropCollectionReturn
    \/ HasCollectionReturn
    \/ ListCollectionsReturn
    \/ HybridBackendError
    \/ OtherBackendError
    \/ ClientBackendError
    \/ HasCollectionBackendError
    \/ Return

SpecLifecycle == Init /\ [][NextLifecycle]_vars

\* ------------------------------------------------------------ properties
HybridReturned == op = "hybridSearch" /\ outcome.status = "returned"
HybridRunning == op = "hybridSearch" /\ pc \in {"getCollection", "call"}

\* the ids delivered so far, and where each was delivered first
HistoryIds == {history[i].row.id : i \in 1..Len(history)}
FirstSeen(id) == Least({i \in 1..Len(history) : history[i].row.id = id})
\* the scores delivered for an id, in the order of delivery
ScoresOf(id) ==
    LET hits == SelectSeq(history, LAMBDA e : e.row.id = id)
    IN  [i \in 1..Len(hits) |-> hits[i].result.score]

\* C1: the list hybridSearch returns holds no two entries with the same
\* document id.
C1_NoDuplicateIds ==
    HybridReturned =>
        \A i, j \in 1..Len(outcome.value) :
            i # j => outcome.value[i].document.id # outcome.value[j].document.id

\* an id was delivered by two different requests and the list has two entries
C1_Witness ==
    /\ HybridReturned
    /\ Len(outcome.value) = 2
    /\ \E i, j \in 1..Len(history) :
          history[i].row.id = history[j].row.id /\ history[i].req # history[j].req

RECURSIVE RunningAverage(_)
\* (...((s1 + s2) / 2 + s3) / 2 ...), doubled at each step to stay in integers:
\* RunningAverage(s) * 2 ^ (Len(s) - 1) is computed and compared below
RunningAverage(s) ==
    IF Len(s) = 1 THEN s[1]
    ELSE RunningAverage(SubSeq(s, 1, Len(s) - 1)) + s[Len(s)] * 2 ^ (Len(s) - 2)

RECURSIVE SumSeq(_)
SumSeq(s) == IF s = <<>> THEN 0 ELSE Head(s) + SumSeq(Tail(s))

\* C2: in hybridSearch the score kept for an id is the first score delivered
\* for it, and after each later delivery (kept + new) / 2: the running pairwise
\* average of the scores delivered for that id.
C2_RunningPairwiseAverage ==
    (HybridRunning \/ HybridReturned) =>
        /\ IdsOf(results) = HistoryIds
        /\ \A i \in 1..Len(results) :
              LET s == ScoresOf(results[i].document.id)
              IN  results[i].score * 2 ^ (Len(s) - 1) = RunningAverage(s)

\* an id delivered three times, by two requests, whose kept score is not the
\* equally weighted mean of the three
C2_Witness ==
    /\ HybridReturned
    /\ \E i \in 1..Len(results) :
          LET s == ScoresOf(results[i].document.id)
          IN  /\ Len(s) = 3
              /\ 3 * results[i].score # SumSeq(s)
              /\ \E a, b \in 1..Len(history) :
                    /\ history[a].row.id = results[i].document.id
                    /\ history[b].row.id = results[i].document.id
                    /\ history[a].req # history[b].req

\* C3: the returned list is in non-increasing order of score, and of two
\* entries with equal score the one whose id was delivered first comes first.
C3_SortedStable ==
    HybridReturned =>
        \A i, j \in 1..Len(outcome.value) :
            i < j =>
                /\ outcome.value[i].score >= outcome.value[j].score
                /\ outcome.value[i].score = outcome.value[j].score =>
                      FirstSeen(outcome.value[i].document.id)
                          < FirstSeen(outcome.value[j].document.id)

\* two entries tie after a merge, the ids first delivered by different requests
C3_Witness ==
    /\ HybridReturned
    /\ Len(outcome.value) = 2
    /\ outcome.value[1].score = outcome.value[2].score
    /\ Len(history) = 3
    /\ history[FirstSeen(outcome.value[1].document.id)].req
          # history[FirstSeen(outcome.value[2].document.id)].req

\* C4: with options.limit > 0 the returned list has min(limit, number of
\* distinct ids delivered) entries; no request, or no row, gives the empty list.
C4_Truncation ==
    HybridReturned /\ options.limit > 0 =>
        Len(outcome.value) = Min2(options.limit, Cardinality(HistoryIds))

\* two ids delivered, the limit cuts the list to one
C4_Witness ==
    /\ HybridReturned
    /\ options.limit = 1
    /\ Cardinality(HistoryIds) = 2
    /\ Len(outcome.value) = 1

\* C5: in a hybridSearch call with a filter expression every request is sent
\* with one and the same predicate, and none without a predicate.
C5_UniformFilter ==
    op = "hybridSearch" /\ options.filterExpr # NoFilter =>
        NoWhere \notin wheres /\ Cardinality(wheres) <= 1

\* the filter a running query or hybridSearch was called with
HasFilter == op \in {"query", "hybridSearch"}
FilterOfCall == IF op = "query" THEN options.filter ELSE options.filterExpr

\* C6: `<field> in [<quoted-value>, ...]` reaches the backend, from query and
\* from hybridSearch, as the predicate that restricts <field> to those values.
C6_InListTranslated ==
    \A fd \in Fields, vs \in ValueLists :
        HasFilter /\ FilterOfCall = InExpr(fd, vs) =>
            wheres \subseteq {WhereIn(fd, [i \in 1..Len(vs) |-> <<vs[i]>>])}

C8_ScoreBound ==
    \A i \in 1..Len(history) :
        LET row == history[i].row
            score == history[i].result.score
        IN  "distance" \in DOMAIN row /\ row.distance >= 0 =>
                /\ score \in 0..Unit
                /\ row.distance = 0 => score = Unit
                /\ row.distance >= Unit => score = 0
                /\ row.distance < Unit => score = Unit - row.distance

\* one call in which a text row beyond distance 1 got score 0 and a dense row
\* at distance 0 got score 1
C8_Witness ==
    /\ op = "hybridSearch"
    /\ \E i, j \in 1..Len(history) :
          /\ history[i].result.document.vector = <<>>
          /\ history[i].row.distance = 2 * Unit
          /\ history[i].result.score = 0
          /\ history[j].result.document.vector = QueryVector
          /\ history[j].row.distance = 0
          /\ history[j].result.score = Unit

\* C9: when the backend fails during a request of hybridSearch the call ends
\* with that error and returns no list.
C9_FailureFailsTheCall ==
    op = "hybridSearch" /\ reply = "error" => pc = "done" /\ outcome = Threw

\* the second request failed with results of the first in the map
C9_Witness ==
    /\ op = "hybridSearch"
    /\ reply = "error"
    /\ outcome = Threw
    /\ reqNo = 2
    /\ results # <<>>

\* C10: a search result carries the relativePath, startLine, endLine,
\* fileExtension and metadata of the document inserted under its id.
C10_RoundTrip ==
    op = "search" /\ outcome.status = "returned" =>
        \A i \in 1..Len(outcome.value) :
            LET d == outcome.value[i].document
                o == inserted[d.id]
            IN  /\ d.relativePath = o.relativePath
                /\ d.startLine = o.startLine
                /\ d.endLine = o.endLine
                /\ d.fileExtension = o.fileExtension
                /\ d.metadata = o.metadata

\* what hybridSearch returns when its request list is the first request alone
OnceReturn == HybridResults(MergeAll(<<>>, ResultsOf(1)), LimitOf(options))
NoRepeatedId(rows) == \A i, j \in 1..Len(rows) : i # j => rows[i].id # rows[j].id

\* C11 as stated: hybridSearch with [r, r] returns the list (ids, order,
\* scores) that hybridSearch with [r] returns, when the backend gives the two
\* identical requests the same reply.
C11_Idempotent ==
    HybridReturned =>
        /\ reqNo = 1 => outcome.value = OnceReturn
        /\ reqNo = 2 /\ RowsOf(2) = RowsOf(1) => outcome.value = OnceReturn

\* C11 as amended: hybridSearch with [r, r] returns the list that hybridSearch
\* with [r] returns, when the backend gives the two identical requests the same
\* reply and that reply holds no id more than once.
C11_IdempotentWithoutRepeatedIds ==
    HybridReturned =>
        /\ reqNo = 1 => outcome.value = OnceReturn
        /\ reqNo = 2 /\ RowsOf(2) = RowsOf(1) /\ NoRepeatedId(RowsOf(1)) =>
              outcome.value = OnceReturn

\* the request was given twice and answered twice with two ids at different
\* distances; both are returned
C11_Witness ==
    /\ HybridReturned
    /\ reqNo = 2
    /\ Len(RowsOf(1)) = 2
    /\ RowsOf(2) = RowsOf(1)
    /\ RowsOf(1)[1].id # RowsOf(1)[2].id
    /\ RowsOf(1)[1].distance # RowsOf(1)[2].distance
    /\ Len(outcome.value) = 2

\* C12: with every raw distance of the backend >= 0, every entry of the map
\* of hybridSearch, and every entry of the list it returns, has a score within
\* [0, 1], however many requests delivered its id.
C12_FusedScoreBound ==
    (HybridRunning \/ HybridReturned)
        /\ (\A i \in 1..Len(history) : DistanceOf(history[i].row) >= 0) =>
            /\ \A i \in 1..Len(results) : results[i].score \in 0..Unit
            /\ HybridReturned =>
                  \A i \in 1..Len(outcome.value) : outcome.value[i].score \in 0..Unit

\* an id delivered by two requests with scores 1 and 0 is returned with a
\* score strictly inside the interval, next to an id delivered once
C12_Witness ==
    /\ HybridReturned
    /\ Len(outcome.value) = 2
    /\ \E i \in 1..Len(outcome.value) :
          /\ outcome.value[i].score > 0
          /\ outcome.value[i].score < Unit
          /\ \E a, b \in 1..Len(history) :
                /\ history[a].row.id = outcome.value[i].document.id
                /\ history[b].row.id = outcome.value[i].document.id
                /\ history[a].req # history[b].req
                /\ history[a].result.score # history[b].result.score

IsSuffix(s, t) == \E k \in 0..Len(t) : s = SubSeq(t, k + 1, Len(t))

\* C13: hybridSearch takes its requests in input order, one at a time.  In
\* every step of a call: the requests still to do are a suffix of those there
\* were, and the request number follows; a backend call is in flight exactly
\* while the call awaits one; the collection call issued is the one of the
\* current request, and when it is issued every reply delivered belongs to an
\* earlier request and has its ids in the map; a reply that arrives belongs
\* to the current request and has its ids in the map before the loop goes on.
C13_InOrderOneAtATime ==
    [][op = "hybridSearch" /\ op' = "hybridSearch" =>
          /\ IsSuffix(pending', pending)
          /\ reqNo' >= reqNo
          /\ reqNo > 0 /\ pending' # <<>> =>
                reqNo' + Len(pending') = reqNo + Len(pending)
          /\ (inflight' # NoCall) = (pc' \in {"getCollection", "call"})
          /\ pc # "call" /\ pc' = "call" =>
                /\ inflight'.method = "query"
                /\ inflight'.by = IF IsDense(Head(pending))
                                    THEN "queryEmbeddings" ELSE "queryTexts"
                /\ pending' = pending /\ reqNo' = reqNo
                /\ \A i \in 1..Len(history) : history[i].req < reqNo
                /\ IdsOf(results) = HistoryIds
          /\ pc = "call" /\ reply' = "ok" =>
                /\ Len(history') >= Len(history)
                /\ SubSeq(history', 1, Len(history)) = history
                /\ \A i \in (Len(history) + 1)..Len(history') :
                      history'[i].req = reqNo
                /\ IdsOf(results') = HistoryIds'
                /\ pending' = SkipUnhandled(Tail(pending))
                /\ pc' \in {"getCollection", "done"}
    ]_vars

\* the call of the second request is in flight, the reply to the first merged
C13_Witness ==
    /\ op = "hybridSearch"
    /\ pc = "call"
    /\ reqNo = 2
    /\ Len(history) = 2
    /\ \A i \in 1..Len(history) : history[i].req = 1
    /\ Len(results) = 2

\* the requests that delivered an id
RequestsOf(id) == {history[i].req : i \in {j \in 1..Len(history) : history[j].row.id = id}}

\* C14: when one reply holds an id more than once, hybridSearch does not fail
\* (it throws only when the backend fails), keeps one entry for the id, and
\* the score of the entry is, occurrence after occurrence, the mean of the
\* score kept and the score of the occurrence.
C14_RepeatedIdInOneReply ==
    op = "hybridSearch" =>
        /\ outcome.status = "threw" => reply = "error"
        /\ \A id \in HistoryIds :
              Cardinality(RequestsOf(id)) = 1 /\ Len(ScoresOf(id)) >= 2 =>
                  /\ Cardinality({i \in 1..Len(results) : results[i].document.id = id}) = 1
                  /\ \A i \in 1..Len(results) :
                        results[i].document.id = id =>
                            results[i].score * 2 ^ (Len(ScoresOf(id)) - 1)
                                = RunningAverage(ScoresOf(id))

\* one reply held the id x at distance 2 and then at distance 0: the call
\* returned one entry, with score (0 + 1) / 2
C14_Witness ==
    /\ HybridReturned
    /\ reqNo = 1
    /\ Len(history) = 2
    /\ history[1].row.id = "x" /\ history[1].row.distance = 2 * Unit
    /\ history[2].row.id = "x" /\ history[2].row.distance = 0
    /\ Len(outcome.value) = 1
    /\ outcome.value[1].score = Unit \div 2

\* the document delivered first for an id
FirstDocument(id) == history[FirstSeen(id)].result.document

\* C16: the entry of an id, in the map of hybridSearch and in the list it
\* returns, holds the document of the first result delivered for the id
\* (content, vector, structural fields and metadata), whatever came later.
C16_FirstDocumentKept ==
    (HybridRunning \/ HybridReturned) =>
        /\ \A i \in 1..Len(results) :
              results[i].document = FirstDocument(results[i].document.id)
        /\ HybridReturned =>
              \A i \in 1..Len(outcome.value) :
                  outcome.value[i].document = FirstDocument(outcome.value[i].document.id)

\* an id came from a dense request with the query vector and then from a
\* text request with the empty vector: the entry returned has the query
\* vector and a score changed by the second delivery
C16_Witness ==
    /\ HybridReturned
    /\ \E i \in 1..Len(outcome.value), a, b \in 1..Len(history) :
          /\ a < b
          /\ history[a].row.id = outcome.value[i].document.id
          /\ history[b].row.id = outcome.value[i].document.id
          /\ history[a].req # history[b].req
          /\ history[a].result.document.vector = QueryVector
          /\ history[b].result.document.vector = <<>>
          /\ outcome.value[i].document.vector = QueryVector
          /\ outcome.value[i].score # history[a].result.score

\* the initialization promise has resolved or was rejected
InitSettled == initDone \/ initFailed

\* C15 as stated: no backend call of a method is out before the
\* initialization has completed, and a method that finds the client absent
\* after the initialization fails with 'Chroma client not initialized',
\* without a backend call.
C15_AbsentClientNotInitialized ==
    /\ inflight # NoCall => InitSettled
    /\ op # "none" /\ ~InitSettled =>
          pc = "ensureInitialized" /\ reply = "none" /\ wheres = {}
    /\ op # "none" /\ InitSettled /\ client = "null" /\ pc = "done" =>
          outcome = ThrewNotInitialized /\ reply = "none" /\ wheres = {}

\* C15 as amended: no backend call of a method is out before the
\* initialization has succeeded; the initialization never succeeds with the
\* client absent; when it has failed, with the client absent or present, the
\* method fails with the error of the initialization, without a backend call.
C15_InitErrorFailsTheCall ==
    /\ inflight # NoCall => initDone
    /\ op # "none" /\ ~InitSettled =>
          pc = "ensureInitialized" /\ reply = "none" /\ wheres = {}
    /\ initDone => client = "client"
    /\ op # "none" /\ initFailed =>
          /\ pc \in {"ensureInitialized", "done"}
          /\ inflight = NoCall /\ reply = "none" /\ wheres = {}
          /\ pc = "done" => outcome = ThrewInitError

\* the constructor of the client threw; hybridSearch failed with that error
\* and sent nothing
C15_Witness ==
    /\ initFailed
    /\ client = "null"
    /\ op = "hybridSearch"
    /\ pc = "done"
    /\ outcome = ThrewInitError
    /\ reply = "none"

====
